---- MODULE Spec2Model ----
(***************************************************************************)
(* The text-to-SQL pipeline of code/main.py: a LangGraph workflow of three *)
(* nodes (schema linking, SQL generation, SQL checking) with a conditional *)
(* edge that ends the run or loops back to schema linking.                 *)
(*                                                                         *)
(* The collaborators of the nodes (the LLM chain, the database behind the  *)
(* checker) are the environment: every node draws the outcome of its       *)
(* collaborator from a small set, an escaping exception included.          *)
(***************************************************************************)
EXTENDS Integers, Sequences, FiniteSets, TLC

VARIABLES
    pc,             \* node the workflow runs next, "DONE" (END reached) or "RAISED"
    state,          \* the GraphState dictionary threaded through the nodes
    trace,          \* history: the nodes that have completed, in order
    attempts,       \* history: one record per completed SQLCheckerNode.run
    error_feedback, \* the error_feedback block of the last generation prompt
    args,           \* arguments of the component method that is called on its own
    ret,            \* what that call returned, or that it raised
    batch           \* batch_pipeline: the output file and the driver's locals

vars == <<pc, state, trace, attempts, error_feedback, args, ret, batch>>

-----------------------------------------------------------------------------
(* Bounds and program constants *)

\* largest max_retries explored (main.py fixes 3; the claims range over it)
MaxRetriesRange == 4

\* main.py:210  'max_retries': 3
DefaultMaxRetries == 3

\* sql_generation.py:271  sql[:200] + "..." if len(sql) > 200
PreviewLen == 200

-----------------------------------------------------------------------------
(* Texts.  A SQL text is a sequence of characters, so that len() and       *)
(* slicing are what they are in the code.                                  *)

FillSql(n) == [i \in 1..n |-> IF i % 2 = 1 THEN "x" ELSE "y"]

EmptySql == << >>
ShortSql == <<"S", "E", "L">>
EdgeSql  == FillSql(PreviewLen)
LongSql  == FillSql(PreviewLen + 1)

\* the SQL texts SQLGenerationNode.run can hand back ("" when the LLM
\* response is empty or blank, see _extract_sql)
SqlTexts == {EmptySql, ShortSql, EdgeSql, LongSql}

\* sql_checker.py:102 and :110, the three message literals (translated)
MsgEmpty == "SQL statement must not be empty"
MsgOk    == "SQL correct"
MsgBad   == "SQL wrong"

\* value of a key the initial_state dictionary does not have
Absent == "<absent>"

\* args and ret while no component method is called on its own
NoCall == [fn |-> "none"]

-----------------------------------------------------------------------------
(* Outcomes of the collaborators *)

\* SchemaLinkingNode() and .run as the linking node sees them: the stage
\* raises (data file missing, table_list names a table that is not in the
\* catalog, the LLM call fails, the result cannot be read by key: run returns
\* the pair (links, table_schemas), schema_linking_generation.py:123, and
\* main.py:75-76 reads it by key), or it completes with the validated links
\* and the schema description the controller is written against.
LinkOutcomes ==
    {[raised |-> TRUE, schema_links |-> << >>, table_schemas |-> ""]}
    \cup
    {[raised |-> FALSE, schema_links |-> l, table_schemas |-> "tables_info"] :
        l \in {<< >>, <<"T1.a">>}}

\* SQLGenerationNode() and .run: raises (no try/except around chain.invoke)
\* or returns {"sql": <extracted text>}
GenOutcomes ==
    {[raised |-> TRUE, sql |-> EmptySql]}
    \cup
    {[raised |-> FALSE, sql |-> s] : s \in SqlTexts}

\* SQLCheckerNode(): the constructor re-raises a failed database connection;
\* check_sql returns a boolean (its own exceptions are caught inside it)
CheckOutcomes ==
    {[raised |-> TRUE, check |-> FALSE]}
    \cup
    {[raised |-> FALSE, check |-> b] : b \in BOOLEAN}

-----------------------------------------------------------------------------
(* SQLCheckerNode.run *)

\* The field "checked" is history: whether run got as far as check_sql, the
\* one place where the query checker tool (and the database and LLM behind
\* it) is consulted.

\* variant: the "if not sql" guard is missing
SQLCheckerNode_run_unguarded(sql, check) ==
    [sql |-> sql, is_valid |-> check,
     message |-> IF check THEN MsgOk ELSE MsgBad,
     checked |-> TRUE]

SQLCheckerNode_run(sql, check) ==
    IF sql = EmptySql
    THEN [sql |-> EmptySql, is_valid |-> FALSE, message |-> MsgEmpty,
          checked |-> FALSE]
    ELSE [sql |-> sql, is_valid |-> check,
          message |-> IF check THEN MsgOk ELSE MsgBad,
          checked |-> TRUE]

-----------------------------------------------------------------------------
(* SQLGenerationNode._format_error_feedback                                *)
(* The block is "\n".join(feedback_lines); it is modelled as the sequence  *)
(* of its lines, the empty string being the block without lines.           *)

EmptyString == << >>

sql_preview(sql) ==
    IF Len(sql) > PreviewLen
    THEN SubSeq(sql, 1, PreviewLen) \o <<".", ".", ".">>
    ELSE sql

feedback_entry(i, error) ==
    << [kind |-> "attempt_no", val |-> i],
       [kind |-> "sql_label", val |-> 0],
       [kind |-> "fence_open", val |-> 0],
       [kind |-> "sql", val |-> sql_preview(error.sql)],
       [kind |-> "fence_close", val |-> 0],
       [kind |-> "error", val |-> error.error_message],
       [kind |-> "blank", val |-> 0] >>

RECURSIVE feedback_entries(_, _)
feedback_entries(error_history, i) ==
    IF i > Len(error_history)
    THEN << >>
    ELSE feedback_entry(i, error_history[i]) \o feedback_entries(error_history, i + 1)

\* variant: only the latest failure is fed back
format_error_feedback_latest_only(error_history) ==
    IF error_history = << >>
    THEN EmptyString
    ELSE <<[kind |-> "header", val |-> 0]>>
         \o feedback_entry(1, error_history[Len(error_history)])
         \o <<[kind |-> "footer", val |-> 0]>>

format_error_feedback(error_history) ==
    IF error_history = << >>
    THEN EmptyString
    ELSE <<[kind |-> "header", val |-> 0]>>
         \o feedback_entries(error_history, 1)
         \o <<[kind |-> "footer", val |-> 0]>>

-----------------------------------------------------------------------------
(* The node functions of main.py, as the dictionaries they return *)

schema_linking_node_return(s, output) ==
    [s EXCEPT !.schema_links = output.schema_links,
              !.table_schemas = output.table_schemas]

sql_generation_node_return(s, result) ==
    [s EXCEPT !.sql = result.sql]

\* variant: retry_count counts failed attempts only
sql_checker_node_return_counts_failures(s, result) ==
    LET is_valid == result.is_valid
        message == result.message
        error_history ==
            IF ~is_valid
            THEN Append(s.error_history,
                        [sql |-> s.sql,
                         error_message |-> message,
                         retry_count |-> s.retry_count])
            ELSE s.error_history
    IN [s EXCEPT !.is_valid = is_valid,
                 !.error_message = message,
                 !.retry_count = IF is_valid THEN s.retry_count
                                 ELSE s.retry_count + 1,
                 !.error_history = error_history]

\* variant: error_history is rebuilt from the latest failure
sql_checker_node_return_replaces_history(s, result) ==
    LET is_valid == result.is_valid
        message == result.message
        error_history ==
            IF ~is_valid
            THEN <<[sql |-> s.sql,
                    error_message |-> message,
                    retry_count |-> s.retry_count]>>
            ELSE s.error_history
    IN [s EXCEPT !.is_valid = is_valid,
                 !.error_message = message,
                 !.retry_count = s.retry_count + 1,
                 !.error_history = error_history]

\* variant: every attempt is recorded in error_history, the valid one too
sql_checker_node_return_records_all(s, result) ==
    LET is_valid == result.is_valid
        message == result.message
        error_history ==
            Append(s.error_history,
                   [sql |-> s.sql,
                    error_message |-> message,
                    retry_count |-> s.retry_count])
    IN [s EXCEPT !.is_valid = is_valid,
                 !.error_message = message,
                 !.retry_count = s.retry_count + 1,
                 !.error_history = error_history]

sql_checker_node_return(s, result) ==
    LET is_valid == result.is_valid
        message == result.message
        error_history ==
            IF ~is_valid
            THEN Append(s.error_history,
                        [sql |-> s.sql,
                         error_message |-> message,
                         retry_count |-> s.retry_count])
            ELSE s.error_history
    IN [s EXCEPT !.is_valid = is_valid,
                 !.error_message = message,
                 !.retry_count = s.retry_count + 1,
                 !.error_history = error_history]

\* variant: the is_valid test is missing
should_retry_ignores_valid(s) ==
    IF s.retry_count >= s.max_retries
    THEN "end"
    ELSE "retry"

\* variant: > in place of >=
should_retry_strict(s) ==
    IF s.is_valid
    THEN "end"
    ELSE IF s.retry_count > s.max_retries
         THEN "end"
         ELSE "retry"

should_retry(s) ==
    IF s.is_valid
    THEN "end"
    ELSE IF s.retry_count >= s.max_retries
         THEN "end"
         ELSE "retry"

\* build_workflow: the conditional edge {"end": END, "retry": "schema_linking"}
\* variant: a retry goes back to generation, keeping the old schema links
conditional_edge_regenerate_only(label) ==
    IF label = "end" THEN "DONE" ELSE "GENERATE"

conditional_edge(label) ==
    IF label = "end" THEN "DONE" ELSE "LINK"

-----------------------------------------------------------------------------
(* single_pipeline: initial_state, then app.invoke *)

initial_state(sql_id, max_retries) ==
    [sql_id |-> sql_id,
     question |-> "question",
     table_list |-> <<"T1">>,
     knowledge |-> "",
     complexity |-> "medium",
     schema_links |-> << >>,
     table_schemas |-> Absent,
     sql |-> EmptySql,
     retry_count |-> 0,
     max_retries |-> max_retries,
     is_valid |-> FALSE,
     error_message |-> "",
     error_history |-> << >>]

Init ==
    /\ pc = "LINK"
    /\ \E id \in {"sql_1", "sql_2"}, m \in 0..MaxRetriesRange :
           state = initial_state(id, m)
    /\ trace = << >>
    /\ attempts = << >>
    /\ error_feedback = EmptyString
    /\ args = NoCall
    /\ ret = NoCall
    /\ batch = NoCall

schema_linking_node ==
    /\ pc = "LINK"
    /\ \E output \in LinkOutcomes :
        IF output.raised
        THEN /\ pc' = "RAISED"
             /\ UNCHANGED <<state, trace>>
        ELSE /\ state' = schema_linking_node_return(state, output)
             /\ trace' = Append(trace, "LINK")
             /\ pc' = "GENERATE"
    /\ UNCHANGED <<attempts, error_feedback, args, ret, batch>>

sql_generation_node ==
    /\ pc = "GENERATE"
    /\ \E result \in GenOutcomes :
        IF result.raised
        THEN /\ pc' = "RAISED"
             /\ UNCHANGED <<state, trace, error_feedback>>
        ELSE /\ error_feedback' = format_error_feedback(state.error_history)
             /\ state' = sql_generation_node_return(state, result)
             /\ trace' = Append(trace, "GENERATE")
             /\ pc' = "VALIDATE"
    /\ UNCHANGED <<attempts, args, ret, batch>>

sql_checker_node ==
    /\ pc = "VALIDATE"
    /\ \E outcome \in CheckOutcomes :
        IF outcome.raised
        THEN /\ pc' = "RAISED"
             /\ UNCHANGED <<state, trace, attempts>>
        ELSE LET result == SQLCheckerNode_run(state.sql, outcome.check)
                 new_state == sql_checker_node_return(state, result)
             IN /\ state' = new_state
                /\ attempts' = Append(attempts, result)
                /\ trace' = Append(trace, "VALIDATE")
                /\ pc' = conditional_edge(should_retry(new_state))
    /\ UNCHANGED <<error_feedback, args, ret, batch>>

Next ==
    \/ schema_linking_node
    \/ sql_generation_node
    \/ sql_checker_node

Spec == Init /\ [][Next]_vars

\* app.invoke runs the workflow to its end on the calling thread: a node
\* that can run does run
FairSpec == Spec /\ WF_vars(Next)

-----------------------------------------------------------------------------
(* Vocabulary of the properties *)

Count(x, t) == Cardinality({i \in 1..Len(t) : t[i] = x})

nLink == Count("LINK", trace)
nGen  == Count("GENERATE", trace)
nVal  == Count("VALIDATE", trace)

AllInvalid(a) == \A i \in 1..Len(a) : ~a[i].is_valid
NumInvalid(a) == Cardinality({i \in 1..Len(a) : ~a[i].is_valid})

IsPrefix(s, t) == Len(s) <= Len(t) /\ SubSeq(t, 1, Len(s)) = s

\* app.invoke has returned the final state, or an exception has left it
Terminated == pc \in {"DONE", "RAISED"}

-----------------------------------------------------------------------------
(* Retry bound *)

\* C1: with max_retries >= 1 and a validator that judges every attempt
\* invalid, single_pipeline terminates, and the final state that app.invoke
\* returns has retry_count = max_retries, len(error_history) = max_retries
\* and is_valid false.
C1_RetryBoundFinalState ==
    /\ <>Terminated
    /\ [](  (pc = "DONE" /\ state.max_retries >= 1 /\ AllInvalid(attempts))
          => /\ state.retry_count = state.max_retries
             /\ Len(state.error_history) = state.max_retries
             /\ state.is_valid = FALSE)

\* the run of main.py (max_retries = 3) in which every attempt failed
C1_Witness ==
    /\ pc = "DONE"
    /\ state.max_retries = DefaultMaxRetries
    /\ AllInvalid(attempts)
    /\ Len(attempts) = DefaultMaxRetries

C3_ReachesDoneWithinBound ==
    Terminated => (pc = "DONE" /\ nGen <= state.max_retries + 1)

-----------------------------------------------------------------------------
(* Early termination *)

\* C4: once the validator has judged the first attempt valid, the run is at
\* DONE with is_valid true, an empty error_history, one generation and one
\* validation.
C4_ValidFirstAttempt ==
    (Len(attempts) >= 1 /\ attempts[1].is_valid)
    => /\ pc = "DONE"
       /\ state.is_valid = TRUE
       /\ state.error_history = << >>
       /\ nGen = 1
       /\ nVal = 1

C4_Witness ==
    /\ pc = "DONE"
    /\ Len(attempts) = 1
    /\ attempts[1].is_valid

-----------------------------------------------------------------------------
(* The conditional edge *)

\* C5: a validation attempt is followed by DONE exactly when the statement
\* was judged valid or retry_count (after the attempt) >= max_retries, and by
\* LINK in every other case.
C5_DoneIffValidOrExhausted ==
    [][(pc = "VALIDATE" /\ pc' # "RAISED")
       => /\ pc' \in {"DONE", "LINK"}
          /\ (pc' = "DONE") <=>
                (state'.is_valid \/ state'.retry_count >= state'.max_retries)]_vars

\* both ways out of a validation have been taken, the run ending by exhaustion
C5_Witness ==
    /\ pc = "DONE"
    /\ ~state.is_valid
    /\ Len(attempts) >= 2

-----------------------------------------------------------------------------
(* retry_count and error_history *)

\* C6: retry_count never decreases, grows by exactly one with every
\* validation attempt, valid or not, and by nothing else; after n validation
\* attempts it is n.
C6_RetryCountPerValidation ==
    [][/\ state'.retry_count >= state.retry_count
       /\ (Len(attempts') = Len(attempts) + 1)
            => state'.retry_count = state.retry_count + 1
       /\ (Len(attempts') = Len(attempts))
            => state'.retry_count = state.retry_count
       /\ state'.retry_count = Len(attempts')]_vars

\* a valid attempt after a failed one has been counted as well
C6_Witness ==
    /\ Len(attempts) = 2
    /\ attempts[2].is_valid
    /\ state.retry_count = 2

\* C7: len(error_history) is the number of invalid validation attempts so
\* far; error_history only grows at its end, and a valid attempt leaves it as
\* it is.
C7_HistoryCountsInvalid ==
    [][/\ IsPrefix(state.error_history, state'.error_history)
       /\ Len(state'.error_history) = NumInvalid(attempts')
       /\ (Len(attempts') = Len(attempts) + 1
           /\ attempts'[Len(attempts')].is_valid)
            => state'.error_history = state.error_history]_vars

\* two failed attempts, then a valid one that appended nothing
C7_Witness ==
    /\ Len(attempts) = 3
    /\ attempts[3].is_valid
    /\ Len(state.error_history) = 2

\* C8 as stated: at termination len(error_history) = retry_count, whether
\* the run ended invalid or valid.
C8_HistoryLenIsRetryCount ==
    pc = "DONE" => Len(state.error_history) = state.retry_count

\* C8 (amended): at termination len(error_history) = retry_count when the
\* run ended invalid, and len(error_history) = retry_count - 1 when it ended
\* valid (the valid attempt is counted but not recorded).
C8_HistoryLenAtTermination ==
    pc = "DONE" =>
        IF state.is_valid
        THEN Len(state.error_history) = state.retry_count - 1
        ELSE Len(state.error_history) = state.retry_count

\* a run that ended valid after failed attempts
C8_Witness ==
    /\ pc = "DONE"
    /\ state.is_valid
    /\ Len(state.error_history) >= 1

-----------------------------------------------------------------------------
(* Re-linking on retry *)

StageOrder == <<"LINK", "GENERATE", "VALIDATE">>

-----------------------------------------------------------------------------
(* Error feedback *)

KindLines(block, kinds) ==
    LET OfKind(l) == l.kind \in kinds
    IN SelectSeq(block, OfKind)

Vals(lines) == [i \in 1..Len(lines) |-> lines[i].val]
Kinds(lines) == [i \in 1..Len(lines) |-> lines[i].kind]

\* the k-th generation has just run: its prompt was built from the
\* error_history that is still in the state
AfterGeneration == pc = "VALIDATE"

\* the history given to the generator is the record of the earlier attempts,
\* all of them failed, and the block numbers its entries 1..k-1 in order
FeedbackShape ==
    LET h == state.error_history
        fb == error_feedback
    IN /\ Len(h) = nGen - 1
       /\ Len(attempts) = nGen - 1
       /\ \A i \in 1..Len(h) :
             /\ ~attempts[i].is_valid
             /\ h[i].sql = attempts[i].sql
             /\ h[i].error_message = attempts[i].message
       /\ (h = << >>) => fb = EmptyString
       /\ (h # << >>) =>
             /\ Vals(KindLines(fb, {"attempt_no"})) = [i \in 1..Len(h) |-> i]
             /\ Vals(KindLines(fb, {"error"})) =
                    [i \in 1..Len(h) |-> h[i].error_message]
             /\ Kinds(KindLines(fb, {"attempt_no", "sql", "error"})) =
                    [j \in 1..(3 * Len(h)) |->
                        <<"attempt_no", "sql", "error">>[((j - 1) % 3) + 1]]

\* C10 as stated: every entry of the block carries the failed SQL of its
\* attempt.
C10_FeedbackCarriesFailedSql ==
    AfterGeneration =>
        /\ FeedbackShape
        /\ (state.error_history # << >>) =>
              Vals(KindLines(error_feedback, {"sql"})) =
                  [i \in 1..Len(state.error_history) |-> state.error_history[i].sql]

\* the first PreviewLen characters followed by "..." when the text is longer
CutSql(sql) ==
    IF Len(sql) <= PreviewLen
    THEN sql
    ELSE [j \in 1..(PreviewLen + 3) |-> IF j <= PreviewLen THEN sql[j] ELSE "."]

\* C10 (amended): every entry of the block carries the failed SQL of its
\* attempt, cut to its first 200 characters followed by "..." when it is
\* longer than 200 characters.
C10_FeedbackCarriesSqlPreview ==
    AfterGeneration =>
        /\ FeedbackShape
        /\ (state.error_history # << >>) =>
              Vals(KindLines(error_feedback, {"sql"})) =
                  [i \in 1..Len(state.error_history) |->
                      CutSql(state.error_history[i].sql)]

\* third generation, after a short and a long statement have failed
C10_Witness ==
    /\ AfterGeneration
    /\ Len(state.error_history) = 2
    /\ state.error_history[1].sql = ShortSql
    /\ state.error_history[2].sql = LongSql
    /\ Len(error_feedback) = 16

-----------------------------------------------------------------------------
(* Failures of the stages *)

\* C11: the controller never raises: whatever a stage does (the LLM call
\* fails in linking or generation, table_list names a table missing from the
\* catalog, the checker or its database connection fails), no exception
\* leaves the run and it ends at DONE.
C11_NeverRaises == pc # "RAISED"

-----------------------------------------------------------------------------
(* Validation of an empty statement *)

\* C13: validating an empty SQL statement short-circuits: the result is
\* is_valid = false with the "SQL is empty" message, and the query checker
\* (with the database behind it) is not consulted.
C13_EmptySqlShortCircuits ==
    \A i \in 1..Len(attempts) :
        attempts[i].sql = EmptySql =>
            /\ ~attempts[i].is_valid
            /\ attempts[i].message = MsgEmpty
            /\ ~attempts[i].checked

\* an empty statement has been validated, after a non-empty one was checked
C13_Witness ==
    /\ Len(attempts) = 2
    /\ attempts[1].sql = ShortSql
    /\ attempts[1].checked
    /\ attempts[2].sql = EmptySql
    /\ attempts[2].message = MsgEmpty

-----------------------------------------------------------------------------
(* Component methods called on their own.  The pipeline variables are      *)
(* parked; args holds the arguments, ret the returned value.               *)

Parked ==
    /\ state = initial_state("sql_1", DefaultMaxRetries)
    /\ trace = << >>
    /\ attempts = << >>
    /\ error_feedback = EmptyString
    /\ batch = NoCall

pipeline_vars == <<state, trace, attempts, error_feedback, batch>>

\* all sequences over S of length at most n
SeqsUpTo(S, n) == UNION {[1..k -> S] : k \in 0..n}

-----------------------------------------------------------------------------
(* Python str methods on texts held as sequences of characters *)

Whitespace == {" ", "\n"}

IndexOf(s, ch) ==
    IF \E i \in 1..Len(s) : s[i] = ch
    THEN CHOOSE i \in 1..Len(s) : s[i] = ch /\ \A j \in 1..(i - 1) : s[j] # ch
    ELSE 0

\* ch in s
Contains(s, ch) == IndexOf(s, ch) # 0

\* s.split(ch)
RECURSIVE split(_, _)
split(s, ch) ==
    LET i == IndexOf(s, ch)
    IN IF i = 0
       THEN <<s>>
       ELSE <<SubSeq(s, 1, i - 1)>> \o split(SubSeq(s, i + 1, Len(s)), ch)

\* s.strip()
strip(s) ==
    LET keep == {i \in 1..Len(s) : s[i] \notin Whitespace}
    IN IF keep = {}
       THEN << >>
       ELSE SubSeq(s, CHOOSE i \in keep : \A j \in keep : i <= j,
                      CHOOSE i \in keep : \A j \in keep : i >= j)

\* s.lower(), over the letters the texts use
lower(s) ==
    LET low == [c \in {"T", "A", "B", "X", "E", "R", "O", "I", "N", "V", "L",
                       "D", "C", "F", "S", "Y"} |->
                   CASE c = "T" -> "t" [] c = "A" -> "a"
                     [] c = "B" -> "b" [] c = "X" -> "x"
                     [] c = "E" -> "e" [] c = "R" -> "r"
                     [] c = "O" -> "o" [] c = "I" -> "i"
                     [] c = "N" -> "n" [] c = "V" -> "v"
                     [] c = "L" -> "l" [] c = "D" -> "d"
                     [] c = "C" -> "c" [] c = "F" -> "f"
                     [] c = "S" -> "s" [] c = "Y" -> "y"]
    IN [i \in 1..Len(s) |-> IF s[i] \in DOMAIN low THEN low[s[i]] ELSE s[i]]

Range(f) == {f[i] : i \in DOMAIN f}

-----------------------------------------------------------------------------
(* SchemaValidator (schema_linking_check.py) *)

\* largest number of schema links in one list
MaxLinks == 3

\* self.table_columns: table name -> list of column names, here T1 = [a, b]
table_columns == (<<"T", "1">> :> << <<"a">>, <<"b">> >>)

\* the candidate links an LLM response can carry
LinkTexts ==
    { <<"T", "1", ".", "a">>,
      <<"T", "1", ".", "x">>,
      <<"T", "2", ".", "a">>,
      <<"t", "1", ".", "a">>,
      <<"T", "1", ".", "B">>,
      <<"T", "1", ".", "a", " ", "=", " ", "T", "1", ".", "b">>,
      <<"T", "1", ".", "a", "=", "T", "2", ".", "a">>,
      <<"a">> }

validate_column(table_name, column_name) ==
    IF table_name \notin DOMAIN table_columns
    THEN FALSE
    ELSE column_name \in Range(table_columns[table_name])

validate_table_column(table_column) ==
    LET parts == split(table_column, ".")
    IN IF Len(parts) # 2
       THEN FALSE
       ELSE validate_column(strip(parts[1]), strip(parts[2]))

validate_schema_link(schema_link) ==
    IF ~Contains(schema_link, ".")
    THEN TRUE
    ELSE IF Contains(schema_link, "=")
         THEN LET parts == split(schema_link, "=")
              IN IF Len(parts) # 2
                 THEN FALSE
                 ELSE \A i \in 1..Len(parts) :
                          validate_table_column(strip(parts[i]))
         ELSE validate_table_column(schema_link)

validate_and_filter(schema_links) ==
    SelectSeq(schema_links, validate_schema_link)

InitFilter ==
    /\ pc = "CALL"
    /\ args \in SeqsUpTo(LinkTexts, MaxLinks)
    /\ ret = NoCall
    /\ Parked

call_validate_and_filter ==
    /\ pc = "CALL"
    /\ ret' = [fn |-> "validate_and_filter", val |-> validate_and_filter(args)]
    /\ pc' = "RETURN"
    /\ UNCHANGED <<args, pipeline_vars>>

NextFilter == call_validate_and_filter

SpecFilter == InitFilter /\ [][NextFilter]_vars

\* a link that is one table.column token: two names around a single dot
IsColumnToken(link) ==
    /\ ~Contains(link, "=")
    /\ ~Contains(link, " ")
    /\ Len(split(link, ".")) = 2
    /\ split(link, ".")[1] # << >>
    /\ split(link, ".")[2] # << >>

\* table and column of the token resolve against the catalog when letter
\* case is ignored
ResolvesIgnoringCase(link) ==
    LET parts == split(link, ".")
    IN \E t \in DOMAIN table_columns :
          /\ lower(t) = lower(parts[1])
          /\ \E c \in Range(table_columns[t]) : lower(c) = lower(parts[2])

KeptIgnoringCase(link) == IsColumnToken(link) /\ ResolvesIgnoringCase(link)

\* C14: validate_and_filter keeps a link that is a table.column token if and
\* only if its table and its column both resolve against the catalog,
\* compared case-insensitively (T1 = [a, b]: of T1.a, T1.x, T2.a only T1.a
\* is kept).
C14_KeepsResolvedIgnoringCase ==
    pc = "RETURN" =>
        SelectSeq(ret.val, IsColumnToken) = SelectSeq(args, KeptIgnoringCase)

-----------------------------------------------------------------------------
(* SQLGenerationNode._extract_sql (sql_generation.py)                      *)
(* A response text is a sequence of atoms: the code fence, the line break, *)
(* the blank, the dash and whole words.  The regular expressions of the    *)
(* method are computed over the atoms; \s is Whitespace, \w a word atom.   *)

\* longest response enumerated exhaustively
MaxTextLen == 4

\* the three backquotes that open and close a code block
FENCE == "<fence>"
NL == "\n"
SP == " "
DASH == "-"

WordAtoms == {"sql", "mysql", "SELECT", "DROP", "WITH", "AS", "x"}
Atoms == {FENCE, NL, SP, DASH} \cup WordAtoms

\* longer responses of the shapes an LLM gives: a fenced block with a tag
\* between two lines of prose, a bare multi-line statement, a CTE
SampleResponses ==
    { <<"x", NL, FENCE, "sql", NL, "SELECT", SP, "x", NL, FENCE, NL, "x">>,
      <<"x", NL, FENCE, "mysql", NL, "SELECT", SP, "x", NL, FENCE, NL, "x">>,
      <<"x", NL, FENCE, NL, "SELECT", NL, "x", NL, FENCE, NL, NL, "x">>,
      <<FENCE, "sql", NL, FENCE, NL, "SELECT", SP, "x">>,
      <<"x", NL, NL, "SELECT", SP, "x", NL, "x", SP, "x", NL, NL, "x">>,
      <<"x", NL, NL, "SELECT", SP, "x", NL, SP, "x", NL, DASH, "x", NL, NL, "x">>,
      <<"DROP", SP, "x", NL, NL, "SELECT", SP, "x">>,
      <<"x", SP, "WITH", SP, "x", SP, "AS", SP, "x", NL, NL, "x">>,
      <<"x", SP, "WITH", SP, "x", NL, "x">> }

Responses == SeqsUpTo(Atoms, MaxTextLen) \cup SampleResponses

\* not response_text.strip()
IsBlank(text) == \A i \in 1..Len(text) : text[i] \in Whitespace

Min(S) == CHOOSE x \in S : \A y \in S : x <= y

\* text[i:]
From(text, i) == SubSeq(text, i, Len(text))

\* method 1, code_blocks: the pattern matches from the first fence that has
\* a fence after it, (?:sql)? takes the tag, the lazy group ends at the next
\* fence.  The group is given up to the whitespace at its two ends, which
\* the caller strips.
Fences(text) == {i \in 1..Len(text) : text[i] = FENCE}

has_code_blocks(text) == Cardinality(Fences(text)) >= 2

first_code_block(text) ==
    LET i == Min(Fences(text))
        j == Min(Fences(text) \ {i})
        start == IF text[i + 1] = "sql" THEN i + 2 ELSE i + 1
    IN SubSeq(text, start, j - 1)

\* method 2, sql_keywords in the order of the list
sql_keywords ==
    <<"CTE", "SELECT", "INSERT", "UPDATE", "DELETE", "CREATE", "DROP", "ALTER">>

\* last index of the run of atoms of S that starts at index from
\* (from - 1 when the run is empty)
RunEnd(text, from, S) ==
    Min({k \in (from - 1)..Len(text) : k = Len(text) \/ text[k + 1] \notin S})

\* index of the last atom of the keyword when it matches at p, else 0;
\* "CTE" is WITH\s+\w+\s+AS
keyword_end(text, keyword, p) ==
    IF keyword = "CTE"
    THEN LET a == RunEnd(text, p + 1, Whitespace)
             b == RunEnd(text, a + 1, WordAtoms)
             c == RunEnd(text, b + 1, Whitespace)
         IN IF /\ text[p] = "WITH"
               /\ a >= p + 1
               /\ b >= a + 1
               /\ c >= b + 1
               /\ c + 1 <= Len(text)
               /\ text[c + 1] = "AS"
            THEN c + 1
            ELSE 0
    ELSE IF text[p] = keyword THEN p ELSE 0

\* (?:$|\n\n|(?=\n[^-\s])) matches right after index e
stops_after(text, e) ==
    \/ e = Len(text)
    \/ e = Len(text) - 1 /\ text[Len(text)] = NL
    \/ e + 2 <= Len(text) /\ text[e + 1] = NL /\ text[e + 2] = NL
    \/ /\ e + 2 <= Len(text)
       /\ text[e + 1] = NL
       /\ text[e + 2] \notin ({DASH} \cup Whitespace)

keyword_matches(text, keyword) ==
    \E p \in 1..Len(text) : keyword_end(text, keyword, p) # 0

\* match.group(1) of re.search: leftmost keyword, shortest extension
keyword_group(text, keyword) ==
    LET p == Min({i \in 1..Len(text) : keyword_end(text, keyword, i) # 0})
        q == keyword_end(text, keyword, p)
        e == Min({i \in q..Len(text) : stops_after(text, i)})
    IN SubSeq(text, p, e)

\* re.split(r'\n\n+', sql)[0]
first_paragraph(sql) ==
    LET breaks == {i \in 1..(Len(sql) - 1) : sql[i] = NL /\ sql[i + 1] = NL}
    IN IF breaks = {} THEN sql ELSE SubSeq(sql, 1, Min(breaks) - 1)

\* the for loop over sql_keywords from index k on; the empty text when no
\* keyword gives a statement
RECURSIVE keyword_statement(_, _)
keyword_statement(text, k) ==
    IF k > Len(sql_keywords)
    THEN << >>
    ELSE IF keyword_matches(text, sql_keywords[k])
         THEN LET sql == strip(first_paragraph(
                             strip(keyword_group(text, sql_keywords[k]))))
              IN IF sql # << >> THEN sql ELSE keyword_statement(text, k + 1)
         ELSE keyword_statement(text, k + 1)

\* method 3, the re.sub that drops what precedes the first keyword
cleanup_keywords ==
    {"SELECT", "WITH", "INSERT", "UPDATE", "DELETE", "CREATE", "DROP", "ALTER"}

\* A keyword further into the text: the prefix before the first one goes.
\* A keyword at the very start: the pattern matches empty there, and re.sub
\* then takes a second, non-empty match from the same place, up to the next
\* keyword if there is one.
cleaned_text(text) ==
    LET at == {i \in 1..Len(text) : text[i] \in cleanup_keywords}
        later == at \ {1}
    IN IF at = {}
       THEN text
       ELSE IF Min(at) > 1
            THEN From(text, Min(at))
            ELSE IF later = {} THEN text ELSE From(text, Min(later))

\* methods 2, 3 and the last resort
extract_unfenced(response_text) ==
    LET sql == keyword_statement(response_text, 1)
        cleaned == cleaned_text(response_text)
    IN IF sql # << >>
       THEN sql
       ELSE IF cleaned # << >> /\ cleaned # response_text
            THEN strip(cleaned)
            ELSE strip(response_text)

\* variant: the first code block is returned even when it is blank
extract_sql_any_block(response_text) ==
    IF response_text = << >> \/ IsBlank(response_text)
    THEN << >>
    ELSE IF has_code_blocks(response_text)
         THEN strip(first_code_block(response_text))
         ELSE extract_unfenced(response_text)

extract_sql(response_text) ==
    IF response_text = << >> \/ IsBlank(response_text)
    THEN << >>
    ELSE IF /\ has_code_blocks(response_text)
            /\ strip(first_code_block(response_text)) # << >>
         THEN strip(first_code_block(response_text))
         ELSE extract_unfenced(response_text)

InitExtract ==
    /\ pc = "CALL"
    /\ args \in Responses
    /\ ret = NoCall
    /\ Parked

call_extract_sql ==
    /\ pc = "CALL"
    /\ ret' = [fn |-> "_extract_sql", val |-> extract_sql(args)]
    /\ pc' = "RETURN"
    /\ UNCHANGED <<args, pipeline_vars>>

NextExtract == call_extract_sql

SpecExtract == InitExtract /\ [][NextExtract]_vars

\* the words that name a language after an opening fence
LanguageTags == {"sql", "mysql"}

\* content of the first fenced block without its language tag, trimmed
FirstBlockContent(text) ==
    LET i == Min(Fences(text))
        j == Min(Fences(text) \ {i})
        start == IF text[i + 1] \in LanguageTags THEN i + 2 ELSE i + 1
    IN strip(SubSeq(text, start, j - 1))

\* C15: when the response holds a fenced code block, with or without a
\* language tag, among prose, _extract_sql returns exactly the trimmed content
\* of the first fenced block: none of the prose, and not the language tag.
C15_FirstFencedBlockOnly ==
    (pc = "RETURN" /\ has_code_blocks(args)) =>
        ret.val = FirstBlockContent(args)

\* the SQL-start keywords of the keyword-anchored strategy
StartKeywords ==
    {"SELECT", "WITH", "INSERT", "UPDATE", "DELETE", "CREATE", "DROP", "ALTER"}

\* from the first SQL-start keyword of the text up to the next blank line
\* or the end of the text, trimmed
StatementParagraph(text) ==
    LET k == Min({i \in 1..Len(text) : text[i] \in StartKeywords})
    IN strip(first_paragraph(From(text, k)))

\* C16: without a fenced block, the keyword-anchored strategy returns the
\* text from the first SQL-start keyword up to the next blank line or the
\* end of the text, so a statement whose lines are separated by single line
\* breaks is returned whole, whatever its continuation lines start with.
C16_StatementUpToBlankLine ==
    (/\ pc = "RETURN"
     /\ Fences(args) = {}
     /\ \E i \in 1..Len(args) : args[i] \in StartKeywords) =>
        ret.val = StatementParagraph(args)

\* C17: _extract_sql returns the empty string when the response is empty or
\* only whitespace, and a non-empty string for every other response.
C17_EmptyIffBlank ==
    pc = "RETURN" => (ret.val = << >> <=> IsBlank(args))

\* a response of whitespace only has been given the empty string
C17_Witness ==
    /\ pc = "RETURN"
    /\ args = <<SP, NL>>
    /\ ret.val = << >>

-----------------------------------------------------------------------------
(* SchemaLinkingNode.run and SQLGenerationNode.run around their LLM call   *)

\* largest number of lines in a schema linking response
MaxLines == 2

\* what self.chain.invoke does: it raises, or it returns a response text
LLMOutcomes(texts) ==
    {[failed |-> TRUE, text |-> << >>]}
    \cup
    {[failed |-> FALSE, text |-> t] : t \in texts}

Digits == {"0", "1", "2", "3", "4", "5", "6", "7", "8", "9"}

\* s.startswith(prefix)
startswith(s, prefix) ==
    Len(s) >= Len(prefix) /\ SubSeq(s, 1, Len(prefix)) = prefix

\* "\n".join(lines)
RECURSIVE join_lines(_)
join_lines(lines) ==
    IF lines = << >>
    THEN << >>
    ELSE IF Len(lines) = 1
         THEN lines[1]
         ELSE lines[1] \o <<NL>> \o join_lines(Tail(lines))

\* one pass of the loop body of _parse_response: the link of the line, or
\* the empty text when the line gives none
parse_line(raw) ==
    LET line == strip(raw)
        unnumbered ==
            IF /\ line # << >>
               /\ line[1] \in Digits
               /\ Contains(SubSeq(line, 1, IF Len(line) < 5 THEN Len(line) ELSE 5), ".")
            THEN strip(SubSeq(line, IndexOf(line, ".") + 1, Len(line)))
            ELSE line
        undashed ==
            IF startswith(unnumbered, <<"-", " ">>)
            THEN strip(SubSeq(unnumbered, 3, Len(unnumbered)))
            ELSE unnumbered
    IN IF line = << >> \/ startswith(line, <<FENCE>>) \/ startswith(line, <<"#">>)
       THEN << >>
       ELSE undashed

RECURSIVE parse_lines(_)
parse_lines(lines) ==
    IF lines = << >>
    THEN << >>
    ELSE (IF parse_line(lines[1]) # << >> THEN <<parse_line(lines[1])>> ELSE << >>)
         \o parse_lines(Tail(lines))

parse_response(response) == parse_lines(split(strip(response), NL))

\* the lines a schema linking response is made of
LineTexts ==
    { <<"T", "1", ".", "a">>,
      <<"1", ".", " ", "T", "1", ".", "b">>,
      <<"-", " ", "T", "1", ".", "x">>,
      <<" ", "t", "1", ".", "a">>,
      <<FENCE, "s", "q", "l">>,
      <<"#", " ", "x">>,
      <<"S", "E", "L", "C", ":", " ", "T", "1", ".", "a">>,
      <<"o", "k">>,
      << >> }

LinkResponses == {join_lines(ls) : ls \in SeqsUpTo(LineTexts, MaxLines)}

\* _get_tables_info: self.tables[table_name] raises KeyError for a table
\* that is not in the catalog
get_tables_info_raises(table_list) ==
    \E i \in 1..Len(table_list) : table_list[i] \notin DOMAIN table_columns

\* _get_tables_info: the description of every table of table_list with all
\* its columns, one entry per table, in the order of table_list
get_tables_info(table_list) ==
    [i \in 1..Len(table_list) |->
        [table_name |-> table_list[i], columns |-> table_columns[table_list[i]]]]

\* run has no try/except: what _get_tables_info or chain.invoke raises
\* leaves it; else it returns the pair (validated links, table_schemas)
SchemaLinkingNode_run(input_data, llm) ==
    IF get_tables_info_raises(input_data.table_list) \/ llm.failed
    THEN [fn |-> "SchemaLinkingNode.run", raised |-> TRUE, val |-> << >>]
    ELSE [fn |-> "SchemaLinkingNode.run", raised |-> FALSE,
          val |-> <<validate_and_filter(parse_response(llm.text)),
                    get_tables_info(input_data.table_list)>>]

\* run has no try/except either; it returns {"sql": sql}
SQLGenerationNode_run(input_data, llm) ==
    IF llm.failed
    THEN [fn |-> "SQLGenerationNode.run", raised |-> TRUE, val |-> << >>]
    ELSE [fn |-> "SQLGenerationNode.run", raised |-> FALSE,
          val |-> [sql |-> extract_sql(llm.text)]]

\* schema_linking_node called on its own (main.py 65-77): it builds the
\* extractor, calls run and reads the value of run by the keys
\* 'schema_links' and 'table_schemas'.  run returns a pair
\* (schema_linking_generation.py 123), and a pair read by a key raises
\* TypeError, so the node raises whether run raised or returned.
schema_linking_node_call(s, llm) ==
    LET output == SchemaLinkingNode_run([table_list |-> s.table_list], llm)
    IN IF output.raised
       THEN [fn |-> "schema_linking_node", raised |-> TRUE, val |-> s]
       ELSE [fn |-> "schema_linking_node", raised |-> TRUE, val |-> s]

InitComponents ==
    /\ pc = "CALL"
    /\ \/ \E tl \in {<< <<"T", "1">> >>, << <<"T", "1">>, <<"T", "9">> >>},
             llm \in LLMOutcomes(LinkResponses) :
               args = [fn |-> "SchemaLinkingNode.run",
                       input_data |-> [table_list |-> tl], llm |-> llm]
       \/ \E llm \in LLMOutcomes(SeqsUpTo(Atoms, 2) \cup SampleResponses) :
               args = [fn |-> "SQLGenerationNode.run",
                       input_data |-> [error_history |-> << >>], llm |-> llm]
       \/ \E response \in LinkResponses :
               args = [fn |-> "SchemaLinkingNode._parse_response",
                       response |-> response]
       \/ \E llm \in LLMOutcomes(LinkResponses) :
               args = [fn |-> "schema_linking_node",
                       state |-> [initial_state("sql_1", DefaultMaxRetries)
                                      EXCEPT !.table_list = << <<"T", "1">> >>],
                       llm |-> llm]
    /\ ret = NoCall
    /\ Parked

call_SchemaLinkingNode_run ==
    /\ pc = "CALL"
    /\ args.fn = "SchemaLinkingNode.run"
    /\ ret' = SchemaLinkingNode_run(args.input_data, args.llm)
    /\ pc' = "RETURN"
    /\ UNCHANGED <<args, pipeline_vars>>

call_SQLGenerationNode_run ==
    /\ pc = "CALL"
    /\ args.fn = "SQLGenerationNode.run"
    /\ ret' = SQLGenerationNode_run(args.input_data, args.llm)
    /\ pc' = "RETURN"
    /\ UNCHANGED <<args, pipeline_vars>>

call_parse_response ==
    /\ pc = "CALL"
    /\ args.fn = "SchemaLinkingNode._parse_response"
    /\ ret' = [fn |-> "SchemaLinkingNode._parse_response", raised |-> FALSE,
               val |-> parse_response(args.response)]
    /\ pc' = "RETURN"
    /\ UNCHANGED <<args, pipeline_vars>>

call_schema_linking_node ==
    /\ pc = "CALL"
    /\ args.fn = "schema_linking_node"
    /\ ret' = schema_linking_node_call(args.state, args.llm)
    /\ pc' = "RETURN"
    /\ UNCHANGED <<args, pipeline_vars>>

NextComponents ==
    \/ call_SchemaLinkingNode_run
    \/ call_SQLGenerationNode_run
    \/ call_parse_response
    \/ call_schema_linking_node

SpecComponents == InitComponents /\ [][NextComponents]_vars

\* C12: a failure of the LLM call is caught by the component that made it
\* and turned into an empty result: SchemaLinkingNode.run returns an empty
\* schema-link list, SQLGenerationNode.run an empty SQL string, and neither
\* lets the exception reach its caller.
C12_LLMFailureGivesEmptyResult ==
    (/\ pc = "RETURN"
     /\ args.fn \in {"SchemaLinkingNode.run", "SQLGenerationNode.run"}
     /\ args.llm.failed) =>
        /\ ~ret.raised
        /\ ret.fn = "SchemaLinkingNode.run" => ret.val[1] = << >>
        /\ ret.fn = "SQLGenerationNode.run" => ret.val.sql = << >>

\* the table.column pairs a list of schema links references
ReferencedColumns(schema_links) ==
    LET refs(link) == {strip(p) : p \in Range(split(link, "="))}
        dotted == {r \in UNION {refs(schema_links[i]) : i \in 1..Len(schema_links)} :
                      Len(split(r, ".")) = 2}
    IN {<<strip(split(r, ".")[1]), strip(split(r, ".")[2])>> : r \in dotted}

\* C25: the schema description returned by SchemaLinkingNode.run holds only
\* the tables and columns that the validated links reference; when no link
\* references a table it is the full description that was given to the LLM
\* and is not empty.
C25_DescriptionNarrowedToLinks ==
    (pc = "RETURN" /\ ret.fn = "SchemaLinkingNode.run" /\ ~ret.raised) =>
        LET referenced == ReferencedColumns(ret.val[1])
            description == ret.val[2]
        IN IF referenced = {}
           THEN /\ description = get_tables_info(args.input_data.table_list)
                /\ description # << >>
           ELSE \A i \in 1..Len(description) :
                    \A c \in Range(description[i].columns) :
                        <<description[i].table_name, c>> \in referenced

\* C26: each stage changes only its own fields of the pipeline state; for
\* the linking stage: when the extractor returns, the node returns the state
\* with schema_links and table_schemas set to the extractor's validated link
\* list and schema description and every other field as it was.
C26_LinkSetsOnlyItsFields ==
    (/\ pc = "RETURN"
     /\ ret.fn = "schema_linking_node"
     /\ ~SchemaLinkingNode_run([table_list |-> args.state.table_list],
                               args.llm).raised) =>
        LET output == SchemaLinkingNode_run([table_list |-> args.state.table_list],
                                            args.llm)
        IN /\ ~ret.raised
           /\ ret.val = [args.state EXCEPT !.schema_links = output.val[1],
                                           !.table_schemas = output.val[2]]

\* the tags of a schema link line
SchemaLinkTags ==
    { <<"T", "I", "M", "E">>, <<"F", "I", "L", "T">>, <<"S", "E", "L", "C">>,
      <<"L", "I", "N", "K">>, <<"G", "R", "U", "P">> }

\* C24: the schema-link parser keeps only the lines that start with one of
\* the five tags TIME, FILT, SELC, LINK, GRUP; every other line of the
\* response is discarded.
C24_KeepsOnlyTaggedLines ==
    (pc = "RETURN" /\ ret.fn = "SchemaLinkingNode._parse_response") =>
        \A i \in 1..Len(ret.val) :
            \E tag \in SchemaLinkTags : startswith(ret.val[i], tag)

-----------------------------------------------------------------------------
(* SQLValidator.validate_syntax (sql_validator.py)                         *)
(* A statement is a sequence of tokens written with one blank between      *)
(* them: words, the comma, and table.column references.  A token is the    *)
(* record of its word and, for a reference, the column after the dot.      *)

\* longest statement enumerated
MaxSqlTokens == 4

Word(w) == [word |-> w, col |-> ""]
ColumnRef(t, c) == [word |-> t, col |-> c]

SqlTokens ==
    { Word("SELECT"), Word("select"), Word("FROM"), Word("from"), Word("JOIN"),
      Word(","), Word("T1"), Word("T9"),
      ColumnRef("T1", "a"), ColumnRef("T1", "x"), ColumnRef("T9", "a") }

\* longer statements: a comma-separated table list, a join, a reference
\* to an unknown column beside an unknown table
SampleStatements ==
    { <<Word("SELECT"), ColumnRef("T1", "a"), Word("FROM"), Word("T1"),
        Word(","), Word("T9")>>,
      <<Word("SELECT"), ColumnRef("T1", "x"), Word("FROM"), Word("T1"),
        Word("JOIN"), Word("T9")>>,
      <<Word("select"), ColumnRef("T1", "x"), Word(","), ColumnRef("T1", "a"),
        Word("from"), Word("T9")>> }

Statements == SeqsUpTo(SqlTokens, MaxSqlTokens) \cup SampleStatements

\* self.table_columns of the validator: T1 = [a, b]
validator_table_columns == ("T1" :> {"a", "b"})

\* re.IGNORECASE, over the words of the statements
upper(w) ==
    CASE w = "select" -> "SELECT"
      [] w = "from" -> "FROM"
      [] OTHER -> w

\* \b<keyword>\b is found at token i
keyword_at(sql, i, keyword) ==
    sql[i].col = "" /\ upper(sql[i].word) = keyword

\* re.findall(r'\b(?:FROM|JOIN)\s+([a-zA-Z0-9_]+)'), scanning from token i:
\* a match takes the keyword and the word after it (of a reference, the part
\* before the dot), and the scan goes on behind the match
RECURSIVE table_matches(_, _)
table_matches(sql, i) ==
    IF i >= Len(sql)
    THEN {}
    ELSE IF /\ (keyword_at(sql, i, "FROM") \/ keyword_at(sql, i, "JOIN"))
            /\ sql[i + 1].word # ","
         THEN {sql[i + 1].word} \cup table_matches(sql, i + 2)
         ELSE table_matches(sql, i + 1)

\* list(set(matches))
extract_table_names(sql) == table_matches(sql, 1)

\* the matches of extract_column_names that hold a dot; validate_syntax
\* skips the others
dotted_column_names(sql) == {sql[i] : i \in {j \in 1..Len(sql) : sql[j].col # ""}}

NoNames == {}

Error(kind, names, table, column) ==
    [kind |-> kind, names |-> names, table |-> table, column |-> column]

validate_syntax(sql, expected_tables) ==
    LET extracted_tables == extract_table_names(sql)
        invalid_tables == {t \in extracted_tables : t \notin DOMAIN validator_table_columns}
        valid_tables == {t \in extracted_tables : t \in DOMAIN validator_table_columns}
        missing_tables == expected_tables \ extracted_tables
        extra_tables == extracted_tables \ expected_tables
        table_errors ==
            IF invalid_tables # {}
            THEN {Error("unknown_tables", invalid_tables, "", "")}
            ELSE {}
        column_errors ==
            IF valid_tables # {}
            THEN {Error("unknown_column", NoNames, r.word, r.col) :
                    r \in {x \in dotted_column_names(sql) :
                             /\ x.word \in DOMAIN validator_table_columns
                             /\ x.col \notin validator_table_columns[x.word]}}
            ELSE {}
        select_errors ==
            IF \E i \in 1..Len(sql) : keyword_at(sql, i, "SELECT")
            THEN {}
            ELSE {Error("missing_select", NoNames, "", "")}
        from_errors ==
            IF \E i \in 1..Len(sql) : keyword_at(sql, i, "FROM")
            THEN {}
            ELSE {Error("missing_from", NoNames, "", "")}
        errors == table_errors \cup column_errors \cup select_errors \cup from_errors
        warnings ==
            IF expected_tables # {}
            THEN (IF missing_tables # {}
                  THEN {[kind |-> "expected_unused", names |-> missing_tables]}
                  ELSE {})
                 \cup
                 (IF extra_tables # {}
                  THEN {[kind |-> "unexpected_used", names |-> extra_tables]}
                  ELSE {})
            ELSE {}
    IN [valid |-> errors = {},
        errors |-> errors,
        warnings |-> warnings,
        extracted_tables |-> extracted_tables]

InitSyntax ==
    /\ pc = "CALL"
    /\ \E sql \in Statements, expected \in {{}, {"T1"}} :
           args = [sql |-> sql, expected_tables |-> expected]
    /\ ret = NoCall
    /\ Parked

call_validate_syntax ==
    /\ pc = "CALL"
    /\ ret' = [fn |-> "validate_syntax",
               val |-> validate_syntax(args.sql, args.expected_tables)]
    /\ pc' = "RETURN"
    /\ UNCHANGED <<args, pipeline_vars>>

NextSyntax == call_validate_syntax

SpecSyntax == InitSyntax /\ [][NextSyntax]_vars

\* token i is a plain table name
IsTableName(sql, i) ==
    /\ sql[i].col = ""
    /\ sql[i].word \notin {","}
    /\ upper(sql[i].word) \notin {"SELECT", "FROM", "JOIN"}

\* token i is a table named by a FROM or JOIN clause: the name behind the
\* keyword, and each further name of a comma-separated list
RECURSIVE InFromClause(_, _)
InFromClause(sql, i) ==
    /\ i >= 2
    /\ IsTableName(sql, i)
    /\ \/ keyword_at(sql, i - 1, "FROM")
       \/ keyword_at(sql, i - 1, "JOIN")
       \/ (i >= 3 /\ sql[i - 1] = Word(",") /\ InFromClause(sql, i - 2))

ClauseTables(sql) == {sql[i].word : i \in {j \in 1..Len(sql) : InFromClause(sql, j)}}

\* C18: the structural check rejects (valid = false) any statement without
\* a FROM keyword or without a SELECT keyword, in any letter case, and any
\* statement whose FROM/JOIN clause names a table that is not in the
\* catalog, with an error that lists that table by name.
C18_RejectsMissingKeywordOrUnknownTable ==
    pc = "RETURN" =>
        /\ (~\E i \in 1..Len(args.sql) : keyword_at(args.sql, i, "SELECT")) =>
               ~ret.val.valid
        /\ (~\E i \in 1..Len(args.sql) : keyword_at(args.sql, i, "FROM")) =>
               ~ret.val.valid
        /\ \A t \in ClauseTables(args.sql) \ DOMAIN validator_table_columns :
               /\ ~ret.val.valid
               /\ \E e \in ret.val.errors :
                      e.kind = "unknown_tables" /\ t \in e.names

\* C19: the structural check reports an unknown-column error for every
\* table.column token whose table is in the catalog and whose column is not,
\* whatever other issues (unknown tables, missing SELECT or FROM) the same
\* statement has.
C19_ReportsEveryUnknownColumn ==
    pc = "RETURN" =>
        \A i \in 1..Len(args.sql) :
            (/\ args.sql[i].col # ""
             /\ args.sql[i].word \in DOMAIN validator_table_columns
             /\ args.sql[i].col \notin validator_table_columns[args.sql[i].word]) =>
                \E e \in ret.val.errors :
                    /\ e.kind = "unknown_column"
                    /\ e.table = args.sql[i].word
                    /\ e.column = args.sql[i].col

-----------------------------------------------------------------------------
(* SQLValidator.execute_sql (sql_validator.py)                             *)
(* The statement is a sequence of atoms as in _extract_sql: the blank, the *)
(* semicolon and whole words.  The database is the environment: connect   *)
(* and execute succeed or raise.                                           *)

\* longest statement enumerated exhaustively
MaxExecLen == 4

SEMI == ";"

ExecWords == {"DELETE", "EXPLAIN", "LIMIT", "5", "T1"}
ExecAtoms == {SP, SEMI} \cup ExecWords

ExecStatements ==
    SeqsUpTo(ExecAtoms, MaxExecLen)
    \cup
    { <<"DELETE", SP, "T1", SP, "LIMIT", SP, "5", SEMI>>,
      <<SP, "DELETE", SP, "T1", SEMI, SEMI, SP>>,
      <<"EXPLAIN", SP, "DELETE", SP, "T1">> }

\* what pymysql does: connect raises pymysql.Error or another exception,
\* execute raises one of the two, or the rows come back
DbOutcomes ==
    {"connect_error", "connect_exception", "execute_error", "execute_exception", "ok"}

\* execute_sql(..., limit: int = 10), as it is written into the statement
DefaultLimit == "10"

\* re.search(r'\bLIMIT\s+\d+', sql, re.IGNORECASE)
has_limit(sql) ==
    \E i \in 1..Len(sql) :
        /\ sql[i] = "LIMIT"
        /\ (i = 1 \/ sql[i - 1] \notin ExecWords)
        /\ LET w == RunEnd(sql, i + 1, Whitespace)
           IN /\ w >= i + 1
              /\ w + 1 <= Len(sql)
              /\ sql[w + 1] = "5"

\* s.rstrip(';')
rstrip_semicolons(s) ==
    LET keep == {i \in 1..Len(s) : s[i] # SEMI}
    IN IF keep = {}
       THEN << >>
       ELSE SubSeq(s, 1, CHOOSE i \in keep : \A j \in keep : i >= j)

sql_with_limit(sql, limit) ==
    IF has_limit(strip(sql))
    THEN strip(sql)
    ELSE rstrip_semicolons(strip(sql)) \o <<SP, "LIMIT", limit>>

\* The fields submitted, connected and closed are history: the statements
\* given to cursor.execute, whether pymysql.connect returned a connection,
\* whether conn.close() ran.
execute_sql(sql, db, limit) ==
    LET connected == db \notin {"connect_error", "connect_exception"}
        submitted == IF connected THEN <<sql_with_limit(sql, limit)>> ELSE << >>
    IN [success |-> db = "ok",
        result |-> IF db = "ok" THEN "rows" ELSE "None",
        row_count |-> IF db = "ok" THEN 1 ELSE 0,
        error |-> CASE db = "ok" -> "None"
                    [] db \in {"connect_error", "execute_error"} -> "str(e)"
                    [] OTHER -> "execution exception: str(e)",
        submitted |-> submitted,
        connected |-> connected,
        closed |-> connected]

InitExecute ==
    /\ pc = "CALL"
    /\ \E sql \in ExecStatements, db \in DbOutcomes :
           args = [sql |-> sql, db |-> db, limit |-> DefaultLimit]
    /\ ret = NoCall
    /\ Parked

call_execute_sql ==
    /\ pc = "CALL"
    /\ ret' = [fn |-> "execute_sql",
               val |-> execute_sql(args.sql, args.db, args.limit)]
    /\ pc' = "RETURN"
    /\ UNCHANGED <<args, pipeline_vars>>

NextExecute == call_execute_sql

SpecExecute == InitExecute /\ [][NextExecute]_vars

\* C20: the dynamic check never executes the statement under test: every
\* statement it submits to the database is wrapped in a non-executing
\* plan/explain command.
C20_SubmitsOnlyExplain ==
    pc = "RETURN" =>
        \A i \in 1..Len(ret.val.submitted) :
            /\ Len(ret.val.submitted[i]) >= 2
            /\ SubSeq(ret.val.submitted[i], 1, 2) = <<"EXPLAIN", SP>>

-----------------------------------------------------------------------------
(* SQLCaseRetriever.retrieve_by_vector, in vector_retrive/sql_case_retrive *)
(* (query by stored sql_id) and in sql_case_retrive (query by vector).     *)
(* FAISS is the environment: for a query it ranks the stored vectors by    *)
(* descending inner product.  The index is held as the list of its sql_ids *)
(* in that ranked order; any order of any contents is a list of ids.       *)

\* largest number of vectors in the index
MaxIndex == 4

\* largest top_k
MaxTopK == 2

CaseIds == {"q", "c1", "c2"}

\* table_list of the case of each sql_id
case_tables == [id \in CaseIds |-> IF id = "c2" THEN {"T2"} ELSE {"T1"}]

RankedIndexes == SeqsUpTo(CaseIds, MaxIndex)

Result(sql_id, rank) == [sql_id |-> sql_id, rank |-> rank]

\* the for loop of vector_retrive/sql_case_retrive.py:89-115 from candidate
\* i on: the query itself and the ids outside true.json are skipped
RECURSIVE true_case_loop(_, _, _, _, _, _)
true_case_loop(ranked, true_sql_ids, sql_id, top_k, i, results) ==
    IF i > Len(ranked)
    THEN results
    ELSE IF ranked[i] = sql_id \/ ranked[i] \notin true_sql_ids
         THEN true_case_loop(ranked, true_sql_ids, sql_id, top_k, i + 1, results)
         ELSE LET appended == Append(results, Result(ranked[i], i))
              IN IF Len(appended) >= top_k
                 THEN appended
                 ELSE true_case_loop(ranked, true_sql_ids, sql_id, top_k,
                                     i + 1, appended)

\* vector_retrive: search_k = len(self.sql_ids), every candidate is ranked;
\* ValueError when the sql_id has no vector.
\* variant: no candidate is taken for the query itself
retrieve_by_sql_id_keeps_query(ranked, true_sql_ids, sql_id, top_k) ==
    IF sql_id \notin Range(ranked)
    THEN [fn |-> "vector_retrive.retrieve_by_vector", raised |-> TRUE,
          val |-> << >>]
    ELSE [fn |-> "vector_retrive.retrieve_by_vector", raised |-> FALSE,
          val |-> true_case_loop(ranked, true_sql_ids, "", top_k, 1, << >>)]

retrieve_by_sql_id(ranked, true_sql_ids, sql_id, top_k) ==
    IF sql_id \notin Range(ranked)
    THEN [fn |-> "vector_retrive.retrieve_by_vector", raised |-> TRUE,
          val |-> << >>]
    ELSE [fn |-> "vector_retrive.retrieve_by_vector", raised |-> FALSE,
          val |-> true_case_loop(ranked, true_sql_ids, sql_id, top_k, 1, << >>)]

\* the for loop of sql_case_retrive.py:113-138 over the first search_k
\* ranked candidates
RECURSIVE table_filter_loop(_, _, _, _, _, _)
table_filter_loop(found, case_index, table_filter, top_k, i, results) ==
    IF i > Len(found)
    THEN results
    ELSE IF \/ found[i] \notin case_index
            \/ (table_filter # {} /\ case_tables[found[i]] \cap table_filter = {})
         THEN table_filter_loop(found, case_index, table_filter, top_k, i + 1, results)
         ELSE LET appended == Append(results, Result(found[i], i))
              IN IF Len(appended) >= top_k
                 THEN appended
                 ELSE table_filter_loop(found, case_index, table_filter, top_k,
                                        i + 1, appended)

\* sql_case_retrive: search_k = top_k * 3 with a table filter, else top_k,
\* and FAISS returns the first min(search_k, len(self.sql_ids)) candidates
retrieve_by_vector(ranked, case_index, top_k, table_filter) ==
    LET search_k == IF table_filter # {} THEN top_k * 3 ELSE top_k
        k == IF search_k < Len(ranked) THEN search_k ELSE Len(ranked)
        found == SubSeq(ranked, 1, k)
    IN [fn |-> "sql_case_retrive.retrieve_by_vector", raised |-> FALSE,
        val |-> table_filter_loop(found, case_index, table_filter, top_k, 1, << >>)]

InitRetrieve ==
    /\ pc = "CALL"
    /\ \E ranked \in RankedIndexes, true_ids \in SUBSET CaseIds :
          \/ \E top_k \in 0..MaxTopK :
                args = [fn |-> "vector_retrive.retrieve_by_vector",
                        ranked |-> ranked, case_index |-> true_ids,
                        sql_id |-> "q", top_k |-> top_k, table_filter |-> {}]
          \/ \E top_k \in 1..MaxTopK, table_filter \in {{}, {"T2"}} :
                args = [fn |-> "sql_case_retrive.retrieve_by_vector",
                        ranked |-> ranked, case_index |-> true_ids,
                        sql_id |-> "", top_k |-> top_k,
                        table_filter |-> table_filter]
    /\ ret = NoCall
    /\ Parked

call_retrieve_by_sql_id ==
    /\ pc = "CALL"
    /\ args.fn = "vector_retrive.retrieve_by_vector"
    /\ ret' = retrieve_by_sql_id(args.ranked, args.case_index, args.sql_id, args.top_k)
    /\ pc' = "RETURN"
    /\ UNCHANGED <<args, pipeline_vars>>

call_retrieve_by_vector ==
    /\ pc = "CALL"
    /\ args.fn = "sql_case_retrive.retrieve_by_vector"
    /\ ret' = retrieve_by_vector(args.ranked, args.case_index, args.top_k,
                                 args.table_filter)
    /\ pc' = "RETURN"
    /\ UNCHANGED <<args, pipeline_vars>>

NextRetrieve ==
    \/ call_retrieve_by_sql_id
    \/ call_retrieve_by_vector

SpecRetrieve == InitRetrieve /\ [][NextRetrieve]_vars

\* C21: querying the case index by a stored sql_id never returns that same
\* sql_id in the result list, for any top_k and any index contents.
C21_QueryIdNotReturned ==
    (/\ pc = "RETURN"
     /\ ret.fn = "vector_retrive.retrieve_by_vector"
     /\ ~ret.raised) =>
        \A i \in 1..Len(ret.val) : ret.val[i].sql_id # args.sql_id

\* the query is itself a true case and ranks first; the case behind it is
\* returned
C21_Witness ==
    /\ pc = "RETURN"
    /\ args.fn = "vector_retrive.retrieve_by_vector"
    /\ args.ranked = <<"q", "c1", "q">>
    /\ args.case_index = {"q", "c1"}
    /\ args.top_k = 2
    /\ ret.val = <<Result("c1", 2)>>

\* the candidate at rank i passes the filter of the call: a true case other
\* than the query, or a case of the index that shares a table with the
\* table filter
PassesFilter(a, i) ==
    IF a.fn = "vector_retrive.retrieve_by_vector"
    THEN a.ranked[i] # a.sql_id /\ a.ranked[i] \in a.case_index
    ELSE /\ a.ranked[i] \in a.case_index
         /\ (a.table_filter = {} \/ case_tables[a.ranked[i]] \cap a.table_filter # {})

\* ranks of the first k candidates that pass the filter
FirstPassing(a, k) ==
    LET passing == {i \in 1..Len(a.ranked) : PassesFilter(a, i)}
    IN {i \in passing : Cardinality({j \in passing : j < i}) < k}

\* C22: retrieval returns at most top_k cases in descending similarity
\* order, and they are exactly the first top_k ranked candidates that pass
\* the allow-list or table filter: fewer than top_k are returned only when
\* fewer than top_k indexed candidates pass it.
C22_FirstTopKPassing ==
    (pc = "RETURN" /\ ~ret.raised) =>
        /\ Len(ret.val) <= args.top_k
        /\ \A i, j \in 1..Len(ret.val) : i < j => ret.val[i].rank < ret.val[j].rank
        /\ {ret.val[i].rank : i \in 1..Len(ret.val)} = FirstPassing(args, args.top_k)
        /\ \A i \in 1..Len(ret.val) :
               ret.val[i].sql_id = args.ranked[ret.val[i].rank]

(***************************************************************************)
(* batch_pipeline (main.py 230-288).  The output file is a JSON list of    *)
(* results; the driver loads it into the dictionary existing_results,      *)
(* keeps the dataset items whose sql_id is not in the dictionary, runs     *)
(* single_pipeline on each of them and rewrites the whole file after every *)
(* item and once more at the end.  A dictionary is modelled as the         *)
(* sequence of its values in insertion order.  single_pipeline is the      *)
(* workflow above, summarised by its outcome: a result or an exception,    *)
(* which nothing in batch_pipeline catches.                                *)
(***************************************************************************)

MaxDataset == 3
MaxRuns == 2
BatchIds == {"a", "b"}

\* what single_pipeline returns for an item (main.py 223-227)
single_pipeline_result(sql_id, is_valid) ==
    [sql_id |-> sql_id,
     sql |-> IF is_valid THEN ShortSql ELSE EmptySql,
     is_valid |-> is_valid]

PipelineOutcomes == {"valid", "invalid", "raised"}

Ids(results) == {results[i].sql_id : i \in 1..Len(results)}

\* existing_results[result['sql_id']] = result on a dictionary that only
\* ever appends (mutant of dict_put: a list instead of a dictionary)
dict_put_append(existing_results, result) ==
    Append(existing_results, result)

\* existing_results[result['sql_id']] = result: an existing key keeps its
\* position and gets the new value, a new key is appended
dict_put(existing_results, result) ==
    IF result.sql_id \in Ids(existing_results)
    THEN [i \in 1..Len(existing_results) |->
             IF existing_results[i].sql_id = result.sql_id
             THEN result ELSE existing_results[i]]
    ELSE Append(existing_results, result)

RECURSIVE dict_from(_, _)
\* {r['sql_id']: r for r in existing_data}
dict_from(existing_data, d) ==
    IF existing_data = << >> THEN d
    ELSE dict_from(Tail(existing_data), dict_put(d, Head(existing_data)))

\* the output file is absent, unreadable as JSON, or holds a list
MissingFile == [status |-> "missing", data |-> << >>]
CorruptFile == [status |-> "corrupt", data |-> << >>]
JsonFile(results) == [status |-> "ok", data |-> results]

\* main.py 246-254: the dictionary of the results already stored
load_existing_results(output_file) ==
    IF output_file.status = "ok" THEN dict_from(output_file.data, << >>)
    ELSE << >>

\* main.py 257-264 without the test on existing_results (mutant of
\* select_todo_items)
select_todo_items_all(dataset, existing_results) ==
    dataset

\* main.py 257-264: the items whose sql_id is not stored yet, in order
select_todo_items(dataset, existing_results) ==
    SelectSeq(dataset, LAMBDA sql_id : sql_id \notin Ids(existing_results))

\* the output files a run of batch_pipeline can have left behind
StoredResults ==
    {rs \in SeqsUpTo({single_pipeline_result(id, v) :
                          id \in BatchIds, v \in BOOLEAN}, Cardinality(BatchIds)) :
        Cardinality(Ids(rs)) = Len(rs)}

OutputFiles == {MissingFile, CorruptFile} \cup {JsonFile(rs) : rs \in StoredResults}

Datasets == SeqsUpTo(BatchIds, MaxDataset)

InitBatch ==
    /\ pc = "BATCH_START"
    /\ state = initial_state("sql_1", DefaultMaxRetries)
    /\ trace = << >>
    /\ attempts = << >>
    /\ error_feedback = EmptyString
    /\ args = NoCall
    /\ ret = NoCall
    /\ \E dataset \in Datasets, output_file \in OutputFiles :
           batch = [fn |-> "batch_pipeline",
                    dataset |-> dataset,
                    output_file |-> output_file,
                    file_at_start |-> output_file,
                    existing_results |-> << >>,
                    todo_items |-> << >>,
                    i |-> 1,
                    processed |-> << >>,
                    run |-> 1,
                    after_completed |-> FALSE]

idle_vars == <<state, trace, attempts, error_feedback, args, ret>>

\* main.py 241-264: load the dataset and the stored results, select the work
batch_load ==
    /\ pc = "BATCH_START"
    /\ LET existing_results == load_existing_results(batch.output_file)
       IN batch' = [batch EXCEPT
                        !.existing_results = existing_results,
                        !.todo_items = select_todo_items(batch.dataset, existing_results),
                        !.i = 1]
    /\ pc' = "BATCH_LOOP"
    /\ UNCHANGED idle_vars

\* main.py 271-283: one turn of the loop; an exception of single_pipeline
\* leaves batch_pipeline
batch_item ==
    /\ pc = "BATCH_LOOP"
    /\ batch.i <= Len(batch.todo_items)
    /\ \E outcome \in PipelineOutcomes :
        IF outcome = "raised"
        THEN /\ pc' = "BATCH_RAISED"
             /\ batch' = batch
        ELSE LET result == single_pipeline_result(batch.todo_items[batch.i],
                                                  outcome = "valid")
                 existing_results == dict_put(batch.existing_results, result)
             IN /\ batch' = [batch EXCEPT
                                !.existing_results = existing_results,
                                !.output_file = JsonFile(existing_results),
                                !.processed = Append(@, result.sql_id),
                                !.i = @ + 1]
                /\ pc' = "BATCH_LOOP"
    /\ UNCHANGED idle_vars

\* main.py 285-288: the final save after the loop
batch_final_save ==
    /\ pc = "BATCH_LOOP"
    /\ batch.i > Len(batch.todo_items)
    /\ batch' = [batch EXCEPT !.output_file = JsonFile(batch.existing_results)]
    /\ pc' = "BATCH_DONE"
    /\ UNCHANGED idle_vars

\* the process is stopped between two items
batch_interrupt ==
    /\ pc = "BATCH_LOOP"
    /\ batch.processed # << >>
    /\ batch.i <= Len(batch.todo_items)
    /\ pc' = "BATCH_KILLED"
    /\ UNCHANGED <<batch, idle_vars>>

\* batch_pipeline is started again on the same input and output files
batch_rerun ==
    /\ pc \in {"BATCH_DONE", "BATCH_RAISED", "BATCH_KILLED"}
    /\ batch.run < MaxRuns
    /\ batch' = [batch EXCEPT
                    !.file_at_start = batch.output_file,
                    !.existing_results = << >>,
                    !.todo_items = << >>,
                    !.i = 1,
                    !.processed = << >>,
                    !.run = @ + 1,
                    !.after_completed = (pc = "BATCH_DONE")]
    /\ pc' = "BATCH_START"
    /\ UNCHANGED idle_vars

NextBatch ==
    \/ batch_load
    \/ batch_item
    \/ batch_final_save
    \/ batch_interrupt
    \/ batch_rerun

SpecBatch == InitBatch /\ [][NextBatch]_vars

\* C23: batch_pipeline is safe to re-run: an item whose sql_id is in the
\* output file when the run starts is not processed in that run and its
\* stored result stays in the file unchanged; a run on the same input after
\* a completed run processes nothing and leaves the output file as it was.
C23_SafeToRerun ==
    /\ Ids(batch.file_at_start.data) \cap Range(batch.processed) = {}
    /\ Range(batch.file_at_start.data) \subseteq Range(batch.output_file.data)
    /\ batch.after_completed =>
           /\ batch.processed = << >>
           /\ batch.output_file = batch.file_at_start

\* the second run, after a completed first run that processed two items,
\* has ended without processing anything
C23_Witness ==
    /\ pc = "BATCH_DONE"
    /\ batch.run = 2
    /\ batch.after_completed
    /\ batch.dataset = <<"a", "b">>
    /\ Len(batch.file_at_start.data) = 2

\* C27: after each item the output file holds every result that was in it
\* when the run started plus a result for each item processed so far, and
\* no sql_id twice, also when the dataset repeats a sql_id; this is the file
\* an interruption between two items leaves behind.
C27_FileHoldsAllResults ==
    (batch.processed # << >>) =>
        /\ batch.output_file.status = "ok"
        /\ Range(batch.file_at_start.data) \subseteq Range(batch.output_file.data)
        /\ Ids(batch.output_file.data)
               = Ids(batch.file_at_start.data) \cup Range(batch.processed)
        /\ Cardinality(Ids(batch.output_file.data)) = Len(batch.output_file.data)

\* the run was stopped after the second item of a dataset that repeats a
\* sql_id, with one result stored before the run
C27_Witness ==
    /\ pc = "BATCH_KILLED"
    /\ batch.dataset = <<"a", "a", "a">>
    /\ batch.processed = <<"a", "a">>
    /\ Ids(batch.file_at_start.data) = {"b"}
    /\ Len(batch.output_file.data) = 2

\* the fields other than those of the generation and validation stages
FrameOfGenerate(s) == [s EXCEPT !.sql = EmptySql]
FrameOfValidate(s) ==
    [s EXCEPT !.is_valid = FALSE, !.error_message = "", !.retry_count = 0,
              !.error_history = << >>]

\* the rest of C26, on the workflow: GENERATE changes only sql, VALIDATE
\* only is_valid, error_message, retry_count and error_history, and sql_id,
\* question, knowledge, table_list and max_retries never change
C26_FrameOfGenerateAndValidate ==
    [][/\ pc = "GENERATE" => FrameOfGenerate(state') = FrameOfGenerate(state)
       /\ pc = "VALIDATE" => FrameOfValidate(state') = FrameOfValidate(state)
       /\ state'.sql_id = state.sql_id
       /\ state'.question = state.question
       /\ state'.knowledge = state.knowledge
       /\ state'.table_list = state.table_list
       /\ state'.max_retries = state.max_retries]_vars

-----------------------------------------------------------------------------
(* SQLCheckerNode.check_sql (sql_checker.py 38-80)                         *)
(* The output of the query checker tool is a sequence of characters.       *)

\* longest enumerated tool output
MaxOutputLen == 5

\* sub in s, for two strings
contains_text(s, sub) ==
    \E i \in 0..(Len(s) - Len(sub)) : SubSeq(s, i + 1, i + Len(sub)) = sub

error_keywords ==
    << <<"e", "r", "r", "o", "r">>,
       <<"i", "n", "v", "a", "l", "i", "d">>,
       <<"i", "n", "c", "o", "r", "r", "e", "c", "t">>,
       <<"s", "y", "n", "t", "a", "x", " ", "e", "r", "r", "o", "r">>,
       <<"f", "a", "i", "l", "e", "d">> >>

SampleOutputs ==
    { <<"S", "E", "L", "E", "C", "T", " ", "1">>,
      <<"I", "n", "v", "a", "l", "i", "d">>,
      <<"i", "n", " ", "v", "a", "l", "i", "d">>,
      <<"I", "N", "C", "O", "R", "R", "E", "C", "T">>,
      <<"S", "y", "n", "t", "a", "x", " ", "E", "r", "r", "o", "r">>,
      <<"x", " ", "f", "a", "i", "l", "e", "d", ".">>,
      <<"f", "a", "i", "l">> }

ToolOutputs == SeqsUpTo({"e", "r", "o", "R"}, MaxOutputLen) \cup SampleOutputs

\* __init__ 38-48 and self.query_checker.run(sql): no tool was found, the
\* tool raises, or it returns a text
ToolOutcomes ==
    {[found |-> FALSE, raised |-> FALSE, output |-> << >>],
     [found |-> TRUE, raised |-> TRUE, output |-> << >>]}
    \cup
    {[found |-> TRUE, raised |-> FALSE, output |-> t] : t \in ToolOutputs}

\* check_sql looking for the keywords in the output as it is (mutant of
\* check_sql: result in place of result.lower())
check_sql_case_sensitive(tool) ==
    IF ~tool.found \/ tool.raised
    THEN FALSE
    ELSE LET has_error == \E k \in 1..Len(error_keywords) :
                              contains_text(tool.output, error_keywords[k])
         IN ~has_error

\* check_sql: None.run raises AttributeError when no tool was found; every
\* exception is caught and gives False
check_sql(tool) ==
    IF ~tool.found \/ tool.raised
    THEN FALSE
    ELSE LET has_error == \E k \in 1..Len(error_keywords) :
                              contains_text(lower(tool.output), error_keywords[k])
         IN ~has_error

InitChecker ==
    /\ pc = "CALL"
    /\ \E sql \in {EmptySql, ShortSql}, tool \in ToolOutcomes :
           args = [fn |-> "SQLCheckerNode.run", sql |-> sql, tool |-> tool]
    /\ ret = NoCall
    /\ Parked

call_SQLCheckerNode_run ==
    /\ pc = "CALL"
    /\ ret' = SQLCheckerNode_run(args.sql, check_sql(args.tool))
    /\ pc' = "RETURN"
    /\ UNCHANGED <<args, pipeline_vars>>

NextChecker == call_SQLCheckerNode_run

SpecChecker == InitChecker /\ [][NextChecker]_vars

\* the text has one of the five keywords in it, whatever the case of its
\* letters
MentionsFailure(text) ==
    \E k \in 1..Len(error_keywords) :
        \E i \in 1..Len(text) :
            /\ i + Len(error_keywords[k]) - 1 <= Len(text)
            /\ \A j \in 1..Len(error_keywords[k]) :
                   lower(<<text[i + j - 1]>>) = <<error_keywords[k][j]>>

\* C28: SQLCheckerNode judges a non-empty SQL valid exactly when the checker
\* tool returns without raising and its output, lower-cased, contains none
\* of 'error', 'invalid', 'incorrect', 'syntax error', 'failed'; when the
\* tool raises or no sql_db_query_checker tool was found it is invalid.
C28_ValidIffCleanToolOutput ==
    (pc = "RETURN" /\ args.sql # EmptySql) =>
        (ret.is_valid <=>
            /\ args.tool.found
            /\ ~args.tool.raised
            /\ ~MentionsFailure(args.tool.output))

\* the tool answered with a keyword in capitals and the SQL was judged
\* invalid
C28_Witness ==
    /\ pc = "RETURN"
    /\ args.sql = ShortSql
    /\ args.tool.output = <<"e", "R", "R", "o", "r">>
    /\ ~ret.is_valid

\* why the checker rejected an attempt: the SQL was empty, no tool was
\* found, the tool raised, or the tool's output
RejectionReason(sql, tool) ==
    IF sql = EmptySql THEN <<"empty">>
    ELSE IF ~tool.found THEN <<"no tool">>
    ELSE IF tool.raised THEN <<"raised">>
    ELSE <<"output", tool.output>>

\* the error_history entry sql_checker_node appends for a rejected attempt
\* (main.py 108-119)
history_entry(sql, tool, retry_count) ==
    sql_checker_node_return(
        [initial_state("sql_1", DefaultMaxRetries)
            EXCEPT !.sql = sql, !.retry_count = retry_count],
        SQLCheckerNode_run(sql, check_sql(tool))).error_history[1]

\* C29: the message stored in an error_history entry is the validator's
\* diagnostic for that attempt: a failed attempt and any other failed
\* attempt that was rejected for a different reason are recorded with
\* different messages.
C29_MessageTellsReason ==
    (pc = "RETURN" /\ ~ret.is_valid) =>
        \A sql \in {EmptySql, ShortSql}, tool \in ToolOutcomes :
            (/\ ~SQLCheckerNode_run(sql, check_sql(tool)).is_valid
             /\ RejectionReason(sql, tool) # RejectionReason(args.sql, args.tool))
            => history_entry(sql, tool, 1).error_message
                   # history_entry(args.sql, args.tool, 0).error_message

-----------------------------------------------------------------------------
(* SQLValidator.validate_sql_full (sql_validator.py 215-247): the          *)
(* structural check, then the execution when a db_config is given.  The    *)
(* statement is held as its tokens; execute_sql gets its text.             *)

\* longest statement given to validate_sql_full
MaxFullTokens == 4

FullTokens ==
    { Word("SELECT"), Word("FROM"), Word("T1"), Word("T9"), ColumnRef("T1", "a") }

FullStatements == SeqsUpTo(FullTokens, MaxFullTokens)

\* db_config: Optional[Dict]; None and the empty dict are false in "if"
DbConfigs == {"None", "empty", "config"}

\* the text of a statement: its tokens with one blank between them
RECURSIVE statement_text(_)
statement_text(sql) ==
    IF sql = << >>
    THEN << >>
    ELSE LET token == IF sql[1].col = ""
                      THEN <<sql[1].word>>
                      ELSE <<sql[1].word, ".", sql[1].col>>
         IN IF Len(sql) = 1
            THEN token
            ELSE token \o <<SP>> \o statement_text(Tail(sql))

\* validate_sql_full executing whatever the structural check said (mutant
\* of validate_sql_full: the test on syntax_result['valid'] is missing)
validate_sql_full_always_executes(sql, expected_tables, db_config, db) ==
    LET syntax_result == validate_syntax(sql, expected_tables)
        execution_result == execute_sql(statement_text(sql), db, DefaultLimit)
    IN IF db_config = "config"
       THEN [sql |-> sql,
             syntax_check |-> syntax_result,
             execution_check |-> <<execution_result>>,
             overall_valid |-> execution_result.success]
       ELSE [sql |-> sql,
             syntax_check |-> syntax_result,
             execution_check |-> << >>,
             overall_valid |-> syntax_result.valid]

\* execution_check is the empty sequence for None, else the one result of
\* execute_sql
validate_sql_full(sql, expected_tables, db_config, db) ==
    LET syntax_result == validate_syntax(sql, expected_tables)
        execution_result == execute_sql(statement_text(sql), db, DefaultLimit)
    IN IF db_config = "config" /\ syntax_result.valid
       THEN [sql |-> sql,
             syntax_check |-> syntax_result,
             execution_check |-> <<execution_result>>,
             overall_valid |-> execution_result.success]
       ELSE [sql |-> sql,
             syntax_check |-> syntax_result,
             execution_check |-> << >>,
             overall_valid |-> syntax_result.valid]

InitFull ==
    /\ pc = "CALL"
    /\ \E sql \in FullStatements, db_config \in DbConfigs, db \in DbOutcomes :
           args = [sql |-> sql, expected_tables |-> {},
                   db_config |-> db_config, db |-> db]
    /\ ret = NoCall
    /\ Parked

call_validate_sql_full ==
    /\ pc = "CALL"
    /\ ret' = [fn |-> "validate_sql_full",
               val |-> validate_sql_full(args.sql, args.expected_tables,
                                         args.db_config, args.db)]
    /\ pc' = "RETURN"
    /\ UNCHANGED <<args, pipeline_vars>>

NextFull == call_validate_sql_full

SpecFull == InitFull /\ [][NextFull]_vars

\* C30: in validate_sql_full the database is contacted only after the
\* structural check has passed and only when a db_config was given;
\* overall_valid is the execution outcome in that case and the structural
\* outcome otherwise; execute_sql turns every failure of the database into
\* a result and has closed the connection it opened on every path.
C30_DatabaseOnlyAfterStructuralCheck ==
    pc = "RETURN" =>
        LET structural == validate_syntax(args.sql, args.expected_tables).valid
            contacted == ret.val.execution_check # << >>
        IN /\ contacted => (structural /\ args.db_config # "None")
           /\ (structural /\ args.db_config = "config") => contacted
           /\ ret.val.overall_valid =
                  IF contacted THEN args.db = "ok" ELSE structural
           /\ contacted =>
                  LET execution == ret.val.execution_check[1]
                  IN /\ execution.success = (args.db = "ok")
                     /\ execution.success = (execution.error = "None")
                     /\ execution.connected => execution.closed
                     /\ execution.connected =
                            (args.db \in {"execute_error", "execute_exception", "ok"})

\* a statement that passes the structural check was executed with a
\* db_config, the execution failed after the connection was opened, the
\* connection was closed and the statement is judged invalid
C30_Witness ==
    /\ pc = "RETURN"
    /\ args.sql = <<Word("SELECT"), ColumnRef("T1", "a"), Word("FROM"), Word("T1")>>
    /\ args.db_config = "config"
    /\ args.db = "execute_exception"
    /\ ret.val.syntax_check.valid
    /\ ~ret.val.overall_valid
    /\ ret.val.execution_check[1].closed

====
